---------------------------- MODULE Spec2Model ----------------------------
(***************************************************************************)
(* A model of gankenkun's WalkingManager (the gait orchestration loop) and *)
(* of the Kinematics leg solver it drives.                                 *)
(*                                                                         *)
(* Units.  Time is counted in control ticks (time_step = 0.01 s is one     *)
(* tick), so a footstep time, dsp_duration and plan_period are integers    *)
(* and round(x / time_step) is the identity on them.  Lengths, lift        *)
(* heights, offsets and angles are exact rationals, stored as integers in  *)
(* units of 1/Scale: the code computes them in double precision, the model *)
(* in exact arithmetic.                                                    *)
(***************************************************************************)
EXTENDS Integers, Sequences, FiniteSets, TLC

VARIABLES
    \* WalkingManager (walking_manager.hpp:52-97)
    initialized, status, next_support, walk_rotation,
    dsp_duration, plan_period, step_frames, com_period,
    com_height, foot_height, feet_lateral,
    foot_y_offset,
    max_stride, max_rotation,
    left_up, right_up,
    joints,
    left_offset, left_offset_delta, left_foot_target,
    right_offset, right_offset_delta, right_foot_target,
    \* FootStepPlanner foot_step_planner
    foot_steps, planner_params,
    \* LIPM lipm
    com_trajectory, lipm_params,
    \* Kinematics kinematics
    angles, leg, hip_offset,
    \* what the last call did (not program state: the call's observable outcome)
    last,
    \* the number of set_goal and stop calls made so far
    calls

timingVars  == <<dsp_duration, plan_period, step_frames, com_period>>
postureVars == <<com_height, foot_height, feet_lateral>>
strideVars  == <<max_stride, max_rotation>>
walkCfgVars == <<timingVars, postureVars, foot_y_offset, strideVars>>
kinCfgVars  == <<leg, hip_offset>>
collabVars  == <<planner_params, lipm_params>>
cfgVars     == <<walkCfgVars, kinCfgVars, collabVars>>
gaitVars    == <<initialized, status, next_support, walk_rotation>>
liftVars    == <<left_up, right_up>>
leftVars    == <<left_offset, left_offset_delta, left_foot_target>>
rightVars   == <<right_offset, right_offset_delta, right_foot_target>>
footVars    == <<leftVars, rightVars>>
motionVars  == <<gaitVars, liftVars, footVars, joints, foot_steps, com_trajectory, angles>>
vars        == <<cfgVars, motionVars, last, calls>>

-----------------------------------------------------------------------------
(* Bounds of the model *)

\* the longest footstep queue one plan() call produces
MaxPlanLen == 5

\* the number of set_goal and stop calls the caller makes in one run
MaxCalls == 2

\* the highest lift followed, in foot heights (the code has no such limit)
MaxLift == 2

\* one length / angle unit, in model units (every quotient the code forms
\* within the bounds is a whole number of 1/Scale)
Scale == 3 * 16

-----------------------------------------------------------------------------
(* Labels *)

START      == "START"
WALKING    == "WALKING"
LEFT_FOOT  == "LEFT_FOOT"
RIGHT_FOOT == "RIGHT_FOOT"
BOTH_FEET  == "BOTH_FEET"
Supports   == {LEFT_FOOT, RIGHT_FOOT, BOTH_FEET}

Max(a, b) == IF a >= b THEN a ELSE b

-----------------------------------------------------------------------------
(* Configuration documents.  A JSON object is a function from the keys it  *)
(* holds to their values: a missing key is a key outside its DOMAIN.       *)

TimingKeys  == {"dsp_duration", "plan_period", "com_period", "step_frames"}
PostureKeys == {"com_height", "foot_height", "feet_lateral"}
OffsetKeys  == {"foot_y_offset"}
StrideKeys  == {"max_x", "max_y", "max_a"}
LegKeys     == {"ankle_length", "calf_length", "knee_length", "thigh_length"}
HipKeys     == {"x", "y"}

WalkGroups == {"timing", "posture", "offset", "stride"}
KinGroups  == {"leg", "offset"}

GroupKeys(g) ==
    CASE g = "timing"  -> TimingKeys
      [] g = "posture" -> PostureKeys
      [] g = "offset"  -> OffsetKeys
      [] g = "stride"  -> StrideKeys

KinGroupKeys(g) == IF g = "leg" THEN LegKeys ELSE HipKeys

\* jitsuyo::assign_val(json, key, val): the value at key when the document
\* holds it (the call returns true), else val is left as it was (false)
HasKey(json, key) == key \in DOMAIN json
AssignedVal(json, key, val) == IF HasKey(json, key) THEN json[key] ELSE val

\* the groups of a document that set_config finds invalid (the group is
\* missing, or one of its keys is)
InvalidWalkGroups(w) ==
    {g \in WalkGroups : ~HasKey(w, g) \/ \E k \in GroupKeys(g) : ~HasKey(w[g], k)}
InvalidKinGroups(d) ==
    {g \in KinGroups : ~HasKey(d, g) \/ \E k \in KinGroupKeys(g) : ~HasKey(d[g], k)}

\* assign_val on a key of a section that is read only when the section exists
SectionVal(doc, g, key, val) ==
    IF HasKey(doc, g) THEN AssignedVal(doc[g], key, val) ELSE val

Restrict(f, S) == [x \in S |-> f[x]]

\* Values a document may hold.  A and B are two complete parameter sets.
TimingA  == [dsp_duration |-> 0, plan_period |-> 3, com_period |-> 1, step_frames |-> 2]
TimingB  == [dsp_duration |-> 2, plan_period |-> 4, com_period |-> 2, step_frames |-> 4]
TimingC  == [dsp_duration |-> 2, plan_period |-> 3, com_period |-> 2, step_frames |-> 3]
PostureA == [com_height |-> 20, foot_height |-> 2, feet_lateral |-> 1]
PostureB == [com_height |-> 21, foot_height |-> 4, feet_lateral |-> 2]
OffsetA  == [foot_y_offset |-> 1]
OffsetB  == [foot_y_offset |-> 2]
StrideA  == [max_x |-> 1, max_y |-> 1, max_a |-> 10]
StrideB  == [max_x |-> 2, max_y |-> 2, max_a |-> 20]
LegA     == [ankle_length |-> 1, calf_length |-> 5, knee_length |-> 1, thigh_length |-> 5]
LegB     == [ankle_length |-> 2, calf_length |-> 6, knee_length |-> 2, thigh_length |-> 6]
HipA     == [x |-> 0, y |-> 1]
HipB     == [x |-> 1, y |-> 2]

WalkDocA == [timing |-> TimingA, posture |-> PostureA, offset |-> OffsetA, stride |-> StrideA]
WalkDocB == [timing |-> TimingB, posture |-> PostureB, offset |-> OffsetB, stride |-> StrideB]
WalkDocC == [timing |-> TimingC, posture |-> PostureB, offset |-> OffsetB, stride |-> StrideB]
KinDocA  == [leg |-> LegA, offset |-> HipA]
KinDocB  == [leg |-> LegB, offset |-> HipB]

\* how a group of a document is damaged: left whole, one key dropped, or
\* the whole group dropped
Damages == {"full", "partial", "absent"}
DroppedKey(g) ==
    CASE g = "timing"  -> "plan_period"
      [] g = "posture" -> "com_height"
      [] g = "offset"  -> "foot_y_offset"
      [] g = "stride"  -> "max_a"
      [] g = "leg"     -> "calf_length"
Damaged(doc, dmg) ==
    [g \in {h \in DOMAIN doc : dmg[h] # "absent"} |->
        IF dmg[g] = "full" THEN doc[g]
        ELSE Restrict(doc[g], (DOMAIN doc[g]) \ {DroppedKey(g)})]
DamagedHip(doc, dmg) ==
    [g \in {h \in DOMAIN doc : dmg[h] # "absent"} |->
        IF dmg[g] = "full" THEN doc[g]
        ELSE IF g = "leg" THEN Restrict(doc[g], LegKeys \ {DroppedKey(g)})
        ELSE Restrict(doc[g], HipKeys \ {"y"})]

\* the damages tried on each group
WalkDamages ==
    {dmg \in [WalkGroups -> Damages] : dmg["timing"] # "absent" /\ dmg["offset"] # "partial"}
KinDamages ==
    {dmg \in [KinGroups -> Damages] : dmg["leg"] # "absent" /\ dmg["offset"] # "partial"}

\* the documents set_config is called with
WalkDocs == {WalkDocA} \cup {Damaged(WalkDocB, dmg) : dmg \in WalkDamages}
KinDocs  == {KinDocA} \cup {DamagedHip(KinDocB, dmg) : dmg \in KinDamages}

\* a double read before it is written holds one of these
IndeterminateDoubles == {0, 9}

-----------------------------------------------------------------------------
(* The outcome of the last call *)

\* op: the call; result: "ok", "raised" (an exception left the call) or
\* "crashed" (the process died in it); printed: the sections named on
\* stdout; walk_invalid, kin_invalid: the invalid groups of the documents a
\* set_config call was given; past_end: the call read a footstep the queue
\* does not hold; fault: where the IK solver faulted in a tick; stop_first:
\* the tick began by re-issuing a stop request; stop: the call was a stop
\* request; queued: the number of footsteps queued when the call began
Outcome(op, result) ==
    [op |-> op, result |-> result, printed |-> {}, walk_invalid |-> {},
     kin_invalid |-> {}, past_end |-> FALSE, fault |-> "none", stop_first |-> FALSE,
     stop |-> FALSE, queued |-> 0]
NoCall == Outcome("constructor", "ok")

-----------------------------------------------------------------------------
(* Kinematics::set_config (kinematics.cpp:53-88) *)

\* the segment lengths after the call: every key found is assigned
LegAfterConfig(kinematic_data) ==
    [k \in LegKeys |-> SectionVal(kinematic_data, "leg", k, leg[k])]
HipAfterConfig(kinematic_data) ==
    [k \in HipKeys |-> SectionVal(kinematic_data, "offset", k, hip_offset[k])]

\* whether the call ends by raising: valid_config is computed and never read
KinematicsConfigRaises(kinematic_data) == FALSE

\* the sections the call prints "Error found at section" for
KinematicsPrinted(kinematic_data) ==
    {g \in KinGroups : HasKey(kinematic_data, g)
                       /\ \E k \in KinGroupKeys(g) : ~HasKey(kinematic_data[g], k)}

-----------------------------------------------------------------------------
(* WalkingManager::set_config (walking_manager.cpp:73-154) *)

\* the sections the call prints "Error found at section" for: those that
\* exist and lack a key (a missing section prints nothing)
WalkingPrinted(walking_data) ==
    {g \in WalkGroups : HasKey(walking_data, g)
                        /\ \E k \in GroupKeys(g) : ~HasKey(walking_data[g], k)}

\* valid_config at line 145
ValidConfig(walking_data) == InvalidWalkGroups(walking_data) = {}

SetConfig(walking_data, kinematic_data) ==
    /\ dsp_duration' = SectionVal(walking_data, "timing", "dsp_duration", dsp_duration)
    /\ plan_period'  = SectionVal(walking_data, "timing", "plan_period", plan_period)
    /\ com_period'   = SectionVal(walking_data, "timing", "com_period", com_period)
    /\ step_frames'  = SectionVal(walking_data, "timing", "step_frames", step_frames)
    /\ com_height'   = SectionVal(walking_data, "posture", "com_height", com_height)
    /\ foot_height'  = SectionVal(walking_data, "posture", "foot_height", foot_height)
    /\ feet_lateral' = SectionVal(walking_data, "posture", "feet_lateral", feet_lateral)
    /\ foot_y_offset' = SectionVal(walking_data, "offset", "foot_y_offset", foot_y_offset)
    /\ max_stride' = [x |-> SectionVal(walking_data, "stride", "max_x", max_stride.x),
                      y |-> SectionVal(walking_data, "stride", "max_y", max_stride.y)]
       \* line 129-135: max_rotation_double is a local without initializer,
       \* read even when max_a was not assigned
    /\ IF HasKey(walking_data, "stride")
       THEN IF HasKey(walking_data["stride"], "max_a")
            THEN max_rotation' = walking_data["stride"]["max_a"]
            ELSE max_rotation' \in IndeterminateDoubles
       ELSE max_rotation' = max_rotation
    /\ IF ValidConfig(walking_data)
       THEN /\ planner_params' = [max_stride |-> max_stride', max_rotation |-> max_rotation',
                                  plan_period |-> plan_period', foot_y_offset |-> foot_y_offset']
            /\ lipm_params' = [com_height |-> com_height', time_step |-> 1,
                               com_period |-> com_period']
            /\ leg' = LegAfterConfig(kinematic_data)
            /\ hip_offset' = HipAfterConfig(kinematic_data)
            /\ last' = [Outcome("set_config",
                                 IF KinematicsConfigRaises(kinematic_data)
                                 THEN "raised" ELSE "ok")
                         EXCEPT !.printed = KinematicsPrinted(kinematic_data),
                                !.kin_invalid = InvalidKinGroups(kinematic_data)]
       ELSE /\ UNCHANGED <<collabVars, kinCfgVars>>
            /\ last' = [Outcome("set_config", "raised")
                         EXCEPT !.printed = WalkingPrinted(walking_data),
                                !.walk_invalid = InvalidWalkGroups(walking_data)]
    /\ UNCHANGED <<motionVars, calls>>

-----------------------------------------------------------------------------
(* Vectors (keisan::Matrix<1, 3>: x, y, yaw), in units of 1/Scale *)

Vec(x, y, yaw) == [x |-> x, y |-> y, yaw |-> yaw]
Zero3 == Vec(0, 0, 0)
VAdd(a, b) == Vec(a.x + b.x, a.y + b.y, a.yaw + b.yaw)
VSub(a, b) == Vec(a.x - b.x, a.y - b.y, a.yaw - b.yaw)
\* a / n for a quotient that is a whole number of model units
VDiv(a, n) == Vec(a.x \div n, a.y \div n, a.yaw \div n)
Exact(a, n) == n > 0 /\ a % n = 0
VExact(a, n) == Exact(a.x, n) /\ Exact(a.y, n) /\ Exact(a.yaw, n)

\* C round() on n / 2, n an integer: halves round away from zero
RoundHalf(n) == IF n >= 0 THEN (n + 1) \div 2 ELSE 0 - ((1 - n) \div 2)

-----------------------------------------------------------------------------
(* The footstep planner and the CoM trajectory generator.  Their code is   *)
(* not part of the files modelled here; they are modelled from their       *)
(* documented interface.                                                   *)

FootStep(t, x, y, rot, sup) ==
    [time |-> t, position |-> [x |-> x, y |-> y], rotation |-> rot, support_foot |-> sup]

Opposite(sup) == IF sup = LEFT_FOOT THEN RIGHT_FOOT ELSE LEFT_FOOT

\* the label of the i-th footstep of a plan of n footsteps that starts with
\* label first: consecutive single-support footsteps alternate, and the
\* walk ends on both feet
PlanLabel(i, n, first, support) ==
    LET second == IF first = BOTH_FEET THEN support ELSE Opposite(first)
    IN  IF i = 1 THEN first
        ELSE IF i = n THEN BOTH_FEET
        ELSE IF (i - 2) % 2 = 0 THEN second ELSE Opposite(second)

\* FootStepPlanner::plan: the queues a call may leave in foot_steps.  The
\* queue is time-ordered (one plan_period between footsteps), starts at the
\* current pose and leads to the goal.
Plans(goal_position, goal_orientation, current_position, current_orientation, support, st) ==
    { [i \in 1..n |->
         [time |-> (i - 1) * planner_params.plan_period,
          position |-> IF i = 1 THEN current_position ELSE goal_position,
          rotation |-> IF i = 1 THEN current_orientation ELSE goal_orientation,
          support_foot |-> PlanLabel(i, n, first, support)]]
      : n \in {2, MaxPlanLen}, first \in {BOTH_FEET, support} }

\* LIPM::update(time, foot_steps): the CoM samples of the first queued step,
\* one per tick from the first footstep's time to the second's
LipmUpdate(time, f0, f1) ==
    [i \in 1..Max(0, f1.time - f0.time) |-> [time |-> time + i, position |-> f0.position]]

\* what a read past the end of the queue (or of the trajectory) may return
GarbageSteps == {FootStep(t, 0, 0, 0, sup) : t \in {0, 2}, sup \in Supports}
GarbagePairs == {g \in [0..1 -> GarbageSteps] :
                    g[0].time = 0 /\ g[1].time = 2 /\ g[1].support_foot # RIGHT_FOOT}
GarbageSample == [time |-> 0, position |-> [x |-> 0, y |-> 0]]
\* the outcomes of such a read: the process dies, or goes on with the value
Outcomes == {"crash", "read"}

-----------------------------------------------------------------------------
(* WalkingManager::set_goal (walking_manager.cpp:158-229) *)

\* goal_position (-1, -1) is the stop request
Sentinel == [x |-> 0 - Scale, y |-> 0 - Scale]
IsStopRequest(goal_position) == goal_position.x = 0 - Scale /\ goal_position.y = 0 - Scale

\* lines 166-168
StopStatus(fs, st) == IF Len(fs) <= 4 THEN START ELSE st
\* lines 170-172, popping one entry too early
StopQueue_popAt3(fs) == IF Len(fs) >= 3 THEN Tail(fs) ELSE fs
\* lines 170-172
StopQueue(fs) == IF Len(fs) > 3 THEN Tail(fs) ELSE fs

\* lines 174-187, without the lateral correction of lines 180-182
CurrentPose_uncorrected(fs, st, support) ==
    IF Len(fs) > 2
    THEN [position |-> [x |-> fs[2].position.x, y |-> fs[2].position.y],
          rotation |-> fs[2].rotation]
    ELSE [position |-> [x |-> 0, y |-> 0], rotation |-> 0]
\* lines 174-187: the current pose handed to the planner
CurrentPose(fs, st, support) ==
    IF Len(fs) > 2
    THEN LET y_offset == IF st # START
                         THEN (IF support = LEFT_FOOT THEN 0 - foot_y_offset * Scale
                               ELSE foot_y_offset * Scale)
                         ELSE 0
         IN  [position |-> [x |-> fs[2].position.x, y |-> fs[2].position.y + y_offset],
              rotation |-> fs[2].rotation]
    ELSE [position |-> [x |-> 0, y |-> 0], rotation |-> 0]

\* foot_steps[i] (i counted from 0): the footstep, or garbage past the end
ReadStep(fs, i, g) == IF i < Len(fs) THEN fs[i + 1] ELSE g[i]

\* lines 198-226: whether the call reads a footstep the queue does not hold
\* (foot_steps[0] at line 195, foot_steps[1] at line 199 or 213)
GoalReadsPastEnd(fs, g) ==
    \/ Len(fs) = 0
    \/ Len(fs) = 1 /\ ReadStep(fs, 0, g).support_foot # BOTH_FEET

\* lines 200-208 / 214-222, shifting the pose of a BOTH footstep as well
SwingTarget_alwaysShifted(f1, sign) ==
    Vec(f1.position.x, f1.position.y + sign * foot_y_offset * Scale, f1.rotation)
\* lines 200-208 / 214-222: the swing target from the upcoming footstep
SwingTarget(f1, sign) ==
    IF f1.support_foot = BOTH_FEET
    THEN Vec(f1.position.x, f1.position.y, f1.rotation)
    ELSE Vec(f1.position.x, f1.position.y + sign * foot_y_offset * Scale, f1.rotation)

\* The motion state the walking calls read and write, as one record
Motion ==
    [initialized |-> initialized, status |-> status, next_support |-> next_support,
     walk_rotation |-> walk_rotation,
     left_up |-> left_up, right_up |-> right_up,
     left_offset |-> left_offset, left_offset_delta |-> left_offset_delta,
     left_foot_target |-> left_foot_target,
     right_offset |-> right_offset, right_offset_delta |-> right_offset_delta,
     right_foot_target |-> right_foot_target,
     foot_steps |-> foot_steps, com_trajectory |-> com_trajectory,
     angles |-> angles, joints |-> joints]

\* lines 161-172 and 189-192: the state up to line 193; planned is the queue
\* plan() leaves (unused by a stop request)
GoalQueued(m, stop, planned) ==
    [m EXCEPT !.initialized = TRUE,
              !.status = IF stop THEN StopStatus(m.foot_steps, m.status) ELSE WALKING,
              !.foot_steps = IF stop THEN StopQueue(m.foot_steps) ELSE planned]

\* lines 211 and 225, never assigning next_support
NextSupport_kept(f0, prev) == prev
\* lines 198, 211, 212 and 225: next_support after the call, from the current
\* footstep f0 and the value prev held before
NextSupport(f0, prev) ==
    IF f0.support_foot = LEFT_FOOT THEN RIGHT_FOOT
    ELSE IF f0.support_foot = RIGHT_FOOT THEN LEFT_FOOT
    ELSE prev

\* lines 195-228 on the state m that line 193 leaves
GoalTargets(m, g) ==
    LET f0 == ReadStep(m.foot_steps, 0, g)
        f1 == ReadStep(m.foot_steps, 1, g)
        com == LipmUpdate(f0.time, f0, f1)
    IN  IF f0.support_foot = LEFT_FOOT
        THEN LET target == SwingTarget(f1, 1)
             IN  [m EXCEPT !.com_trajectory = com,
                           !.right_foot_target = target,
                           !.right_offset_delta = VDiv(VSub(target, m.right_offset), step_frames),
                           !.next_support = NextSupport(f0, m.next_support),
                           !.walk_rotation = f0.rotation]
        ELSE IF f0.support_foot = RIGHT_FOOT
        THEN LET target == SwingTarget(f1, 0 - 1)
             IN  [m EXCEPT !.com_trajectory = com,
                           !.left_foot_target = target,
                           !.left_offset_delta = VDiv(VSub(target, m.left_offset), step_frames),
                           !.next_support = NextSupport(f0, m.next_support),
                           !.walk_rotation = f0.rotation]
        ELSE [m EXCEPT !.com_trajectory = com, !.walk_rotation = f0.rotation]

\* the quotients of lines 210 and 224 are whole numbers of model units
GoalExact(m, g) ==
    LET f0 == ReadStep(m.foot_steps, 0, g)
        f1 == ReadStep(m.foot_steps, 1, g)
    IN  /\ f0.support_foot = LEFT_FOOT
           => VExact(VSub(SwingTarget(f1, 1), m.right_offset), step_frames)
        /\ f0.support_foot = RIGHT_FOOT
           => VExact(VSub(SwingTarget(f1, 0 - 1), m.left_offset), step_frames)

\* the variables take the values of the motion record m
Apply(m) ==
    /\ initialized' = m.initialized
    /\ status' = m.status
    /\ next_support' = m.next_support
    /\ walk_rotation' = m.walk_rotation
    /\ left_up' = m.left_up
    /\ right_up' = m.right_up
    /\ left_offset' = m.left_offset
    /\ left_offset_delta' = m.left_offset_delta
    /\ left_foot_target' = m.left_foot_target
    /\ right_offset' = m.right_offset
    /\ right_offset_delta' = m.right_offset_delta
    /\ right_foot_target' = m.right_foot_target
    /\ foot_steps' = m.foot_steps
    /\ com_trajectory' = m.com_trajectory
    /\ angles' = m.angles
    /\ joints' = m.joints

\* The caller configures the controller before it commands it: the planner
\* has its parameters and step_frames divides
Configured == planner_params.plan_period > 0 /\ step_frames > 0

NoGarbage == [i \in 0..1 |-> FootStep(0, 0, 0, 0, BOTH_FEET)]
GarbageFor(fs) == IF Len(fs) < 2 THEN GarbagePairs ELSE {NoGarbage}

\* The process is followed up to its first read past the end of the queue:
\* what it does after one is not defined by the code
Alive == last.result # "crashed" /\ ~last.past_end

\* set_goal(goal_position, goal_orientation), called as op
GoalCall(op, goal_position, goal_orientation) ==
    /\ Alive
    /\ Configured
    /\ calls < MaxCalls
    /\ calls' = calls + 1
    /\ LET stop == IsStopRequest(goal_position)
           cur == CurrentPose(foot_steps, status, next_support)
       IN  \E planned \in (IF stop THEN {<<>>}
                           ELSE Plans(goal_position, goal_orientation, cur.position,
                                      cur.rotation, next_support, status)) :
           LET m1 == GoalQueued(Motion, stop, planned)
           IN  \E g \in GarbageFor(m1.foot_steps) :
               \E outcome \in (IF GoalReadsPastEnd(m1.foot_steps, g)
                               THEN Outcomes ELSE {"read"}) :
                   IF outcome = "crash"
                   THEN /\ Apply(m1)
                        /\ last' = [Outcome(op, "crashed") EXCEPT
                                      !.past_end = TRUE, !.stop = stop,
                                      !.queued = Len(foot_steps)]
                   ELSE /\ GoalExact(m1, g)
                        /\ Apply(GoalTargets(m1, g))
                        /\ last' = [Outcome(op, "ok") EXCEPT
                                      !.past_end = GoalReadsPastEnd(m1.foot_steps, g),
                                      !.stop = stop, !.queued = Len(foot_steps)]
    /\ UNCHANGED cfgVars

-----------------------------------------------------------------------------
(* Kinematics::solve_inverse_kinematics (kinematics.cpp:90-174).  In this  *)
(* part of the model an angle is the term the solver computes it by: which *)
(* of its results it is (f), negated or not (sign), and the numbers that   *)
(* result is computed from (arg); two angles are equal when their terms    *)
(* are.                                                                    *)

LeftLegJoints ==
    {"LEFT_HIP_YAW", "LEFT_HIP_ROLL", "LEFT_HIP_PITCH", "LEFT_UPPER_KNEE",
     "LEFT_LOWER_KNEE", "LEFT_ANKLE_PITCH", "LEFT_ANKLE_ROLL"}
RightLegJoints ==
    {"RIGHT_HIP_YAW", "RIGHT_HIP_ROLL", "RIGHT_HIP_PITCH", "RIGHT_UPPER_KNEE",
     "RIGHT_LOWER_KNEE", "RIGHT_ANKLE_PITCH", "RIGHT_ANKLE_ROLL"}
OtherJoints == {"NECK_YAW", "NECK_PITCH"}
JointIds == LeftLegJoints \cup RightLegJoints \cup OtherJoints

Term(f, sign, x, y, z2, yaw, knee, thigh) ==
    [f |-> f, sign |-> sign,
     arg |-> [x |-> x, y |-> y, z2 |-> z2, yaw |-> yaw, knee |-> knee, thigh |-> thigh]]
ZeroAngle == Term("zero", 1, 0, 0, 0, 0, 0, 0)

\* kinematics.cpp:41-51, with a neck pitch that is not zero
ResetAngles_neckTilted ==
    [id \in JointIds |-> IF id = "NECK_PITCH" THEN Term("yaw", 1, 0, 0, 0, Scale, 0, 0)
                         ELSE ZeroAngle]
\* kinematics.cpp:41-51
ResetAngles == [id \in JointIds |-> ZeroAngle]

\* lines 94-117 (left, side = 1) and 135-157 (right, side = -1): the leg's
\* results from the foot target
LegTerms(foot, side) ==
    LET x  == foot.position.x - hip_offset["x"] * Scale
        y  == foot.position.y - side * hip_offset["y"] * Scale
        z  == (leg["ankle_length"] + leg["calf_length"] + leg["knee_length"]
               + leg["thigh_length"]) * Scale - foot.position.z
        z2 == z - leg["ankle_length"] * Scale
        kn == leg["knee_length"] * Scale
        th == leg["thigh_length"] * Scale
    IN  [yaw        |-> Term("yaw", 1, 0, 0, 0, foot.yaw, 0, 0),
         hip_roll   |-> Term("hip_roll", 1, x, y, z2, foot.yaw, 0, 0),
         hip_pitch  |-> Term("hip_pitch", 1, x, y, z2, foot.yaw, kn, th),
         knee_pitch |-> Term("knee_pitch", 1, x, y, z2, foot.yaw, kn, th)]

Neg(a) == [a EXCEPT !.sign = 0 - a.sign]

\* lines 119-125, with the ankle roll a copy of the hip roll
LeftLegAngles_rollCopied(foot) ==
    LET t == LegTerms(foot, 1)
    IN  [id \in LeftLegJoints |->
           CASE id = "LEFT_HIP_YAW"     -> t.yaw
             [] id = "LEFT_HIP_ROLL"    -> t.hip_roll
             [] id = "LEFT_HIP_PITCH"   -> Neg(t.hip_pitch)
             [] id = "LEFT_UPPER_KNEE"  -> t.hip_pitch
             [] id = "LEFT_LOWER_KNEE"  -> Neg(t.knee_pitch)
             [] id = "LEFT_ANKLE_PITCH" -> ZeroAngle
             [] id = "LEFT_ANKLE_ROLL"  -> t.hip_roll]

\* lines 119-125
LeftLegAngles(foot) ==
    LET t == LegTerms(foot, 1)
    IN  [id \in LeftLegJoints |->
           CASE id = "LEFT_HIP_YAW"     -> t.yaw
             [] id = "LEFT_HIP_ROLL"    -> t.hip_roll
             [] id = "LEFT_HIP_PITCH"   -> Neg(t.hip_pitch)
             [] id = "LEFT_UPPER_KNEE"  -> t.hip_pitch
             [] id = "LEFT_LOWER_KNEE"  -> Neg(t.knee_pitch)
             [] id = "LEFT_ANKLE_PITCH" -> ZeroAngle
             [] id = "LEFT_ANKLE_ROLL"  -> Neg(t.hip_roll)]

\* lines 159-165
RightLegAngles(foot) ==
    LET t == LegTerms(foot, 0 - 1)
    IN  [id \in RightLegJoints |->
           CASE id = "RIGHT_HIP_YAW"     -> t.yaw
             [] id = "RIGHT_HIP_ROLL"    -> t.hip_roll
             [] id = "RIGHT_HIP_PITCH"   -> t.hip_pitch
             [] id = "RIGHT_UPPER_KNEE"  -> Neg(t.hip_pitch)
             [] id = "RIGHT_LOWER_KNEE"  -> Neg(t.knee_pitch)
             [] id = "RIGHT_ANKLE_PITCH" -> ZeroAngle
             [] id = "RIGHT_ANKLE_ROLL"  -> Neg(t.hip_roll)]

\* Where a fault leaves the solver: "none" (it returns), "entry" (before the
\* first store to angles, line 119) or "mid" (after the left leg's stores,
\* lines 119-125, and before the right leg's, lines 159-165)
Faults == {"none", "entry", "mid"}

\* angles after the call: the solver stores into its member in place
SolveInverseKinematics(old, left_foot, right_foot, fault) ==
    [id \in JointIds |->
        IF id \in LeftLegJoints /\ fault # "entry" THEN LeftLegAngles(left_foot)[id]
        ELSE IF id \in RightLegJoints /\ fault = "none" THEN RightLegAngles(right_foot)[id]
        ELSE old[id]]

-----------------------------------------------------------------------------
(* WalkingManager::update_joints (walking_manager.cpp:231-323) *)

\* walking_manager.hpp:94-97, in model units
initial_left_foot  == [x |-> 0 - 2, y |-> 3, z |-> 1]
initial_right_foot == [x |-> 0 - 2, y |-> 0 - 3, z |-> 1]

\* Joint::set_position(angle.degree()): the published position, in degrees
Degree(a) == [degree |-> a]

\* foot_height / ssp_duration
LiftRate(ssp_duration) == (foot_height * Scale) \div ssp_duration

\* lines 258-262 / 275-279: the swing foot's lift after the tick.  With
\* ssp_duration = 0 the rate is +infinity and the lowering clamps to 0; with
\* ssp_duration < 0 the rate is negative and the lowering raises.
LiftAfter(up, diff, ssp_start, ssp_end) ==
    LET ssp_duration == ssp_end - ssp_start
    IN  IF ssp_start < diff /\ diff <= ssp_end THEN up + LiftRate(ssp_duration)
        ELSE IF up > 0
        THEN (IF ssp_duration > 0 THEN Max(up - LiftRate(ssp_duration), 0)
              ELSE IF ssp_duration = 0 THEN 0
              ELSE up + (foot_height * Scale) \div (0 - ssp_duration))
        ELSE up

\* lines 265-271 / 282-288: the swing foot's offset after the tick
OffsetAfter(offset, delta, target, diff, ssp_start, ssp_end) ==
    LET ssp_duration == ssp_end - ssp_start
    IN  IF diff > ssp_start
        THEN (IF diff > ssp_start + ssp_duration * 2 THEN target ELSE VAdd(offset, delta))
        ELSE offset

\* lines 291-307: a foot's target for the solver
FootPose(offset, up, initial, com, rotation) ==
    [position |-> [x |-> offset.x - com.position.x * 1 + initial.x,
                   y |-> offset.y - com.position.y * 1 + initial.y,
                   z |-> up + initial.z],
     yaw |-> rotation - offset.yaw]

\* line 241, taking two samples where the trajectory holds them
PopFront_twice(trajectory) ==
    IF Len(trajectory) > 1 THEN Tail(Tail(trajectory)) ELSE Tail(trajectory)
\* line 241: the trajectory lipm.pop_front() leaves
PopFront(trajectory) == Tail(trajectory)

\* lines 246-248, without the division of line 248
RotationRate_undivided(f0, f1, step_period) == f1.rotation - f0.rotation
\* lines 246-248: the rotation a tick adds to walk_rotation
RotationRate(f0, f1, step_period) == (f1.rotation - f0.rotation) \div step_period

\* lines 241-322 on the state m (whose CoM trajectory holds a sample), with
\* the solver faulting as fault
TickBody(m, g, fault) ==
    LET f0 == ReadStep(m.foot_steps, 0, g)
        f1 == ReadStep(m.foot_steps, 1, g)
        com == Head(m.com_trajectory)
        rest == PopFront(m.com_trajectory)
        step_period == f1.time - f0.time
        rotation == RotationRate(f0, f1, step_period)
        walk == m.walk_rotation + rotation
        ssp_start == RoundHalf(dsp_duration)
        ssp_end == RoundHalf(step_period)
        diff == step_period - Len(rest)
        right_swings == f0.support_foot = LEFT_FOOT
        left_swings == f0.support_foot = RIGHT_FOOT
        r_up == IF right_swings THEN LiftAfter(m.right_up, diff, ssp_start, ssp_end)
                ELSE m.right_up
        l_up == IF left_swings THEN LiftAfter(m.left_up, diff, ssp_start, ssp_end)
                ELSE m.left_up
        r_off == IF right_swings
                 THEN OffsetAfter(m.right_offset, m.right_offset_delta,
                                  m.right_foot_target, diff, ssp_start, ssp_end)
                 ELSE m.right_offset
        l_off == IF left_swings
                 THEN OffsetAfter(m.left_offset, m.left_offset_delta,
                                  m.left_foot_target, diff, ssp_start, ssp_end)
                 ELSE m.left_offset
        left_foot == FootPose(l_off, l_up, initial_left_foot, com, walk)
        right_foot == FootPose(r_off, r_up, initial_right_foot, com, walk)
        solved == SolveInverseKinematics(m.angles, left_foot, right_foot, fault)
    IN  [m EXCEPT !.com_trajectory = rest,
                  !.walk_rotation = walk,
                  !.right_up = r_up, !.left_up = l_up,
                  !.right_offset = r_off, !.left_offset = l_off,
                  !.angles = solved,
                  !.joints = [id \in JointIds |-> Degree(solved[id])]]

\* the quotients of lines 248, 259 and 261 are whole numbers of model units
TickExact(m, g) ==
    LET f0 == ReadStep(m.foot_steps, 0, g)
        f1 == ReadStep(m.foot_steps, 1, g)
        step_period == f1.time - f0.time
        ssp_duration == RoundHalf(step_period) - RoundHalf(dsp_duration)
    IN  /\ Exact(f1.rotation - f0.rotation, step_period)
        /\ ssp_duration > 0 => Exact(foot_height * Scale, ssp_duration)
        /\ ssp_duration < 0 => Exact(foot_height * Scale, 0 - ssp_duration)

\* lines 233-235, without the early return
IsNoOp_never(m) == FALSE
\* lines 233-235: the tick returns at once
IsNoOp(m) == ~m.initialized

\* line 237, never re-issuing the stop request
NeedsStop_never(m) == FALSE
\* line 237: the tick begins by re-issuing a stop request
NeedsStop(m) == m.com_trajectory = <<>>

UpdateJointsWith(faults) ==
    /\ Alive
    /\ UNCHANGED <<cfgVars, calls>>
    /\ IF IsNoOp(Motion)
       THEN /\ UNCHANGED motionVars
            /\ last' = Outcome("update_joints", "ok")
       ELSE LET stop_first == NeedsStop(Motion)
                m1 == IF stop_first THEN GoalQueued(Motion, TRUE, <<>>) ELSE Motion
                past_end == Len(m1.foot_steps) < 2
            IN  \E g \in GarbageFor(m1.foot_steps) :
                \E outcome \in (IF past_end THEN Outcomes ELSE {"read"}) :
                \E fault \in faults :
                LET m2 == IF stop_first THEN GoalTargets(m1, g) ELSE m1
                IN  IF outcome = "crash" \/ m2.com_trajectory = <<>>
                    THEN /\ Apply(m1)
                         /\ last' = [Outcome("update_joints", "crashed") EXCEPT
                                       !.past_end = past_end, !.stop_first = stop_first,
                                       !.queued = Len(foot_steps)]
                    ELSE /\ stop_first => GoalExact(m1, g)
                         /\ TickExact(m2, g)
                         /\ LET m3 == TickBody(m2, g, fault)
                            IN  /\ m3.left_up <= MaxLift * foot_height * Scale
                                /\ m3.right_up <= MaxLift * foot_height * Scale
                                /\ Apply(m3)
                         /\ last' = [Outcome("update_joints", "ok") EXCEPT
                                       !.past_end = past_end, !.fault = fault,
                                       !.stop_first = stop_first,
                                       !.queued = Len(foot_steps)]

-----------------------------------------------------------------------------
(* The controller *)

\* WalkingManager::WalkingManager (walking_manager.cpp:32-55), with the
\* collaborators as constructed.  com_period has no initializer.
Init ==
    /\ initialized = FALSE
    /\ left_up = 0 /\ right_up = 0
    /\ status = START
    /\ next_support = RIGHT_FOOT
    /\ walk_rotation = 0
    /\ dsp_duration = 0 /\ plan_period = 0 /\ step_frames = 0
    /\ com_period \in IndeterminateDoubles
    /\ com_height = 0 /\ foot_height = 0 /\ feet_lateral = 0
    /\ foot_y_offset = 0
    /\ max_stride = [x |-> 0, y |-> 0] /\ max_rotation = 0
    /\ joints = [id \in JointIds |-> Degree(ZeroAngle)]
    /\ left_offset = Zero3 /\ left_offset_delta = Zero3 /\ left_foot_target = Zero3
    /\ right_offset = Zero3 /\ right_offset_delta = Zero3 /\ right_foot_target = Zero3
    /\ foot_steps = <<>>
    /\ planner_params = [max_stride |-> [x |-> 0, y |-> 0], max_rotation |-> 0,
                         plan_period |-> 0, foot_y_offset |-> 0]
    /\ com_trajectory = <<>>
    /\ lipm_params = [com_height |-> 0, time_step |-> 0, com_period |-> 0]
    /\ angles = ResetAngles
    /\ leg = [k \in LegKeys |-> 0]
    /\ hip_offset = [k \in HipKeys |-> 0]
    /\ last = NoCall
    /\ calls = 0

\* the goals a caller asks for, and the documents it configures with before
\* the first goal
GoalPositions == {[x |-> Scale, y |-> 0]}
GoalOrientations == {Scale}
StartWalkDocs == {WalkDocA, WalkDocB, WalkDocC}
StartKinDocs == {KinDocA}

Stop == GoalCall("stop", Sentinel, 0)

SetGoal == \E p \in GoalPositions \cup {Sentinel}, a \in GoalOrientations :
               GoalCall("set_goal", p, a)

Configure == /\ ~initialized
             /\ Alive
             /\ \E w \in StartWalkDocs, k \in StartKinDocs : SetConfig(w, k)

\* the solver as written raises nothing
UpdateJoints == UpdateJointsWith({"none"})

Next == Configure \/ SetGoal \/ Stop \/ UpdateJoints

Spec == Init /\ [][Next]_vars

-----------------------------------------------------------------------------
(* Properties of the stop request and of the tick's entry *)

\* the call that led to this state was a stop request made by the caller
StopRequested == last.op \in {"stop", "set_goal"} /\ last.stop

\* C1: a stop request (stop(), or set_goal with the sentinel position) made
\* with n footsteps queued sets status to START if n <= 4 and leaves it
\* otherwise, and removes exactly the front footstep if n > 3 and leaves the
\* queue otherwise.
C1_StopRequestEffect ==
    [][(StopRequested' /\ calls' # calls) =>
         LET n == Len(foot_steps)
         IN  /\ status' = IF n <= 4 THEN START ELSE status
             /\ foot_steps' = IF n > 3 THEN SubSeq(foot_steps, 2, n) ELSE foot_steps]_vars

\* a stop request made with exactly 4 footsteps queued has reset status and
\* popped the front footstep
C1_Witness ==
    /\ StopRequested /\ last.queued = 4
    /\ status = START /\ Len(foot_steps) = 3

\* the call that led to this state was stop() or update_joints()
DrainStep == last.op \in {"stop", "update_joints"}

\* C2: while stop() and update_joints() are repeated the footstep queue
\* never grows, no call raises or reads a footstep the queue does not hold,
\* and the queue is never empty while status is WALKING.
C2_StopDrainIsSafe ==
    DrainStep =>
        /\ Len(foot_steps) <= last.queued
        /\ last.result = "ok" /\ ~last.past_end
        /\ ~(foot_steps = <<>> /\ status = WALKING)

\* C3: until set_goal has been called, a tick changes nothing of the motion
\* state; every set_goal call or stop request makes the controller
\* initialized, and nothing makes it uninitialized again.
C3_NoOpUntilFirstGoal ==
    [][/\ (~initialized /\ last'.op = "update_joints") => UNCHANGED motionVars
       /\ (last'.op \in {"set_goal", "stop"} /\ calls' # calls) => initialized'
       /\ initialized => initialized']_vars

\* a tick has run on a configured controller that no goal has been given to
C3_Witness ==
    /\ ~initialized /\ Configured
    /\ last.op = "update_joints"

\* C4: a tick on an initialized controller whose CoM sample sequence is
\* empty performs the stop request (status, queue, trajectory, swing target)
\* and goes on: it pops one sample of the new trajectory and publishes the
\* solved joint angles.
C4_EmptyTrajectoryHeals ==
    [][(initialized /\ com_trajectory = <<>> /\ last'.op = "update_joints") =>
         /\ last'.result = "ok" /\ last'.stop_first
         /\ status' = (IF Len(foot_steps) <= 4 THEN START ELSE status)
         /\ foot_steps' = (IF Len(foot_steps) > 3 THEN Tail(foot_steps) ELSE foot_steps)
         /\ Len(foot_steps') >= 2
         /\ LET f0 == foot_steps'[1]
                f1 == foot_steps'[2]
                com == LipmUpdate(f0.time, f0, f1)
            IN  /\ com # <<>>
                /\ com_trajectory' = Tail(com)
                /\ f0.support_foot = LEFT_FOOT => right_foot_target' = SwingTarget(f1, 1)
                /\ f0.support_foot = RIGHT_FOOT => left_foot_target' = SwingTarget(f1, 0 - 1)
         /\ joints' = [id \in JointIds |-> Degree(angles'[id])]]_vars

\* a tick has re-issued the stop request and left samples to consume
C4_Witness ==
    /\ last.op = "update_joints" /\ last.stop_first /\ last.result = "ok"
    /\ com_trajectory # <<>>

-----------------------------------------------------------------------------
(* Properties of the swing foot within a step *)

\* the step being walked, as update_joints reads it (lines 243-257)
InStep        == Alive /\ initialized /\ Len(foot_steps) >= 2
StepPeriod    == foot_steps[2].time - foot_steps[1].time
SspStart      == RoundHalf(dsp_duration)
SspEnd        == RoundHalf(StepPeriod)
SspDuration   == SspEnd - SspStart
\* the ticks run since set_goal last assigned the swing target
TicksSinceGoal == StepPeriod - Len(com_trajectory)
RightSwings   == foot_steps[1].support_foot = LEFT_FOOT
LeftSwings    == foot_steps[1].support_foot = RIGHT_FOOT
AfterTick     == InStep /\ last.op = "update_joints"

\* C5: both lift heights are never negative, and when ssp_duration > 0 the
\* swing foot's lift height is exactly 0 after the last tick of its step
\* (the tick that consumes the step's last CoM sample).
C5_LiftReturnsToZero ==
    /\ left_up >= 0 /\ right_up >= 0
    /\ (AfterTick /\ SspDuration > 0 /\ com_trajectory = <<>>) =>
           /\ RightSwings => right_up = 0
           /\ LeftSwings => left_up = 0

\* C6: after a swing-target assignment by set_goal and with no further
\* set_goal call, the swing foot's offset equals its target after exactly
\* step_frames ticks, and not earlier unless it was equal from the start.
C6_ConvergesAtStepFrames ==
    AfterTick =>
        /\ (RightSwings /\ TicksSinceGoal = step_frames)
               => right_offset = right_foot_target
        /\ (LeftSwings /\ TicksSinceGoal = step_frames)
               => left_offset = left_foot_target
        /\ (RightSwings /\ TicksSinceGoal < step_frames /\ right_offset_delta # Zero3)
               => right_offset # right_foot_target
        /\ (LeftSwings /\ TicksSinceGoal < step_frames /\ left_offset_delta # Zero3)
               => left_offset # left_foot_target

-----------------------------------------------------------------------------
(* The controller with a solver that may fault *)

\* a tick in which solve_inverse_kinematics faults: the exception is caught
\* at walking_manager.cpp:311
UpdateJointsFaulting == UpdateJointsWith({"entry", "mid"})

\* the controller is configured with one valid pair of documents
ConfigureValid == /\ ~initialized
                  /\ Alive
                  /\ SetConfig(WalkDocA, KinDocA)

NextFault == ConfigureValid \/ SetGoal \/ Stop \/ UpdateJoints \/ UpdateJointsFaulting

SpecFault == Init /\ [][NextFault]_vars

-----------------------------------------------------------------------------
(* Configuration alone: set_config called again and again, with documents  *)
(* whole or damaged                                                        *)

LoadConfig == \E w \in WalkDocs, k \in KinDocs : SetConfig(w, k)

SpecConfig == Init /\ [][LoadConfig]_vars

\* the set_config call that led to this state ended by raising
ConfigFailed == last.op = "set_config" /\ last.result = "raised"

\* C8: when several groups of the walking document are invalid (a field or
\* the whole group missing), the failure set_config raises reports every
\* invalid group.
C8_FailureReportsEveryGroup ==
    ConfigFailed => last.walk_invalid \subseteq last.printed

\* a valid configuration has been applied: the planner has its parameters
Applied == planner_params.plan_period > 0

\* C9: a set_config call that fails changes no parameter of the controller,
\* of the planner, of the trajectory generator or of the solver.
C9_FailedConfigAppliesNothing ==
    [][(Applied /\ ConfigFailed') => UNCHANGED cfgVars]_vars

\* C10: a set_config call given a kinematic document with an invalid group
\* (leg or offset missing, or a field of it missing) raises.
C10_InvalidKinematicsRaises ==
    (last.op = "set_config" /\ last.kin_invalid # {}) => last.result = "raised"

-----------------------------------------------------------------------------
(* The solver alone: solve_inverse_kinematics applied to foot targets of   *)
(* every kind (under the hip or beside it, near or out of reach, turned or *)
(* not) on a configured solver                                             *)

FootTargets ==
    {[position |-> [x |-> x, y |-> y, z |-> z], yaw |-> yaw] :
        x \in {0, 600}, y \in {0 - Scale, Scale}, z \in {0, 2 * Scale}, yaw \in {0, Scale}}

\* the solver is configured before it is used
ConfigureSolver == /\ last.op # "solve_inverse_kinematics"
                   /\ \E k \in {KinDocA, KinDocB} : SetConfig(WalkDocA, k)

\* Kinematics::solve_inverse_kinematics(left_foot, right_foot) on a solver
\* that has its segment lengths
Solve ==
    /\ leg["thigh_length"] > 0
    /\ \E left_foot \in FootTargets, right_foot \in FootTargets :
           angles' = SolveInverseKinematics(angles, left_foot, right_foot, "none")
    /\ last' = Outcome("solve_inverse_kinematics", "ok")
    /\ UNCHANGED <<cfgVars, gaitVars, liftVars, footVars, joints, foot_steps,
                   com_trajectory, calls>>

NextSolve == ConfigureSolver \/ Solve

SpecSolve == Init /\ [][NextSolve]_vars

Solved == last.op = "solve_inverse_kinematics"

\* The value of a term is exactly zero: the constant 0, a yaw of 0, or the
\* hip roll atan2(y2, z2) of a target with no lateral residual y2 over a
\* vertical residual z2 >= 0.  y2 = -x sin(yaw) + y cos(yaw) vanishes, for
\* the rational x, y and yaw of the model, only when y = 0 and (yaw = 0 or
\* x = 0).
IsZeroAngle(a) ==
    \/ a.f = "zero"
    \/ a.f = "yaw" /\ a.arg.yaw = 0
    \/ /\ a.f = "hip_roll"
       /\ a.arg.y = 0 /\ (a.arg.yaw = 0 \/ a.arg.x = 0)
       /\ a.arg.z2 >= 0

AnkleJoints ==
    {"LEFT_ANKLE_PITCH", "LEFT_ANKLE_ROLL", "RIGHT_ANKLE_PITCH", "RIGHT_ANKLE_ROLL"}

-----------------------------------------------------------------------------
(* The numbers behind a leg's pitch angles (kinematics.cpp:105-111 and     *)
(* 146-151), for a target that is not turned (yaw = 0, so that x2 = x and  *)
(* y2 = y).  std::sqrt and std::hypot are computed to whole model units.   *)

\* the largest r in lo..hi with r * r <= n
RECURSIVE RootBetween(_, _, _)
RootBetween(n, lo, hi) ==
    IF lo >= hi THEN lo
    ELSE LET mid == (lo + hi + 1) \div 2
         IN  IF mid * mid <= n THEN RootBetween(n, mid, hi)
             ELSE RootBetween(n, lo, mid - 1)

\* std::sqrt(n): a number for n >= 0, NaN otherwise
SqrtDefined(n) == n >= 0
Sqrt(n) == IF SqrtDefined(n) THEN RootBetween(n, 0, 4096) ELSE 0

\* line 106 / 147, without the std::max
Radicand_unclamped(arg) == arg.y * arg.y + arg.z2 * arg.z2 - arg.x * arg.x
\* line 106 / 147: std::max(0.0, left2 - left_x2 * left_x2)
Radicand(arg) == Max(0, arg.y * arg.y + arg.z2 * arg.z2 - arg.x * arg.x)

\* line 106 / 147: left_z3
Z3(arg) == Sqrt(Radicand(arg)) - arg.knee
\* line 109 / 150: std::hypot(left_x2, left_z3)
Length(arg) == Sqrt(arg.x * arg.x + Z3(arg) * Z3(arg))

\* keisan::clamp(v, lo, hi)
Clamp(v, lo, hi) == IF v < lo THEN lo ELSE IF v > hi THEN hi ELSE v

\* line 111 / 151: the ratio given to arccos, as a fraction num / den
KneeRatio(arg) ==
    LET den == 2 * arg.thigh
    IN  [num |-> Clamp(Length(arg), 0 - den, den), den |-> den]

\* arccos(num / den): a number for a ratio in [-1, 1], and 0 for a ratio 1
ArccosDefined(r) == 0 - r.den <= r.num /\ r.num <= r.den
ArccosIsZero(r) == r.num = r.den

\* the term's value is a number: every function on the way to it was given
\* an argument of its domain
Defined(a) ==
    a.f \in {"hip_pitch", "knee_pitch"} =>
        /\ SqrtDefined(Radicand(a.arg))
        /\ ArccosDefined(KneeRatio(a.arg))

\* the leg's target asks for a leg longer than the two thigh links
OutOfReach(arg) == Length(arg) > 2 * arg.thigh

\* C12: for every foot target, reachable or not, the value under the square
\* root is non-negative and the ratio given to arccos lies in [-1, 1], so
\* every leg joint gets a defined angle and the solver raises nothing; a
\* target out of reach gets a knee half-angle of 0.
C12_SolverIsTotal ==
    Solved =>
        /\ last.result = "ok"
        /\ \A id \in LeftLegJoints \cup RightLegJoints :
               angles[id].arg.yaw = 0 =>
                   /\ Defined(angles[id])
                   /\ (angles[id].f \in {"hip_pitch", "knee_pitch"} /\ OutOfReach(angles[id].arg))
                          => ArccosIsZero(KneeRatio(angles[id].arg))

\* the solver has run on a left target that, unclamped, gives a negative
\* value under the root and a ratio above 1
C12_Witness ==
    /\ Solved
    /\ LET arg == angles["LEFT_HIP_PITCH"].arg
       IN  /\ arg.yaw = 0
           /\ arg.y * arg.y + arg.z2 * arg.z2 < arg.x * arg.x
           /\ OutOfReach(arg)

-----------------------------------------------------------------------------
(* Properties of the walking calls' effects *)

\* C13: a tick changes only leg joints in the published joint array: every
\* joint the solver does not manage has the same published value after the
\* tick as before it.
C13_UnmanagedJointsKept ==
    [][last'.op = "update_joints" =>
         \A id \in OtherJoints : joints'[id] = joints[id]]_vars

\* a tick has published leg angles and the neck is where it was
C13_Witness ==
    /\ AfterTick /\ last.result = "ok"
    /\ joints["LEFT_HIP_ROLL"] # Degree(ZeroAngle)
    /\ \A id \in OtherJoints : joints[id] = Degree(ZeroAngle)

\* the offset has not passed the target in the direction delta moves it
NotBeyond(offset, delta, target) ==
    /\ delta.x > 0 => offset.x <= target.x
    /\ delta.x < 0 => offset.x >= target.x
    /\ delta.y > 0 => offset.y <= target.y
    /\ delta.y < 0 => offset.y >= target.y
    /\ delta.yaw > 0 => offset.yaw <= target.yaw
    /\ delta.yaw < 0 => offset.yaw >= target.yaw

\* C14: during a swing with no intervening set_goal, every component of the
\* swing foot's offset moves toward its target and is never beyond it: no
\* more than step_frames deltas are added before the snap.
C14_OffsetNeverPassesTarget ==
    AfterTick =>
        /\ RightSwings => NotBeyond(right_offset, right_offset_delta, right_foot_target)
        /\ LeftSwings => NotBeyond(left_offset, left_offset_delta, left_foot_target)


\* set_goal (or stop) has returned, having read only footsteps the queue holds
GoalReturned == /\ last.op \in {"set_goal", "stop"}
                /\ last.result = "ok" /\ ~last.past_end

\* C15 as stated: after every set_goal call next_support equals the support
\* label of the upcoming footstep (foot_steps[1]), also when the current or
\* the upcoming footstep is labelled BOTH.
C15_NextSupportIsUpcomingLabel ==
    [][(GoalReturned' /\ calls' # calls) =>
         next_support' = foot_steps'[2].support_foot]_vars

\* C15 (amended): after every set_goal call next_support is the foot
\* opposite to the current footstep's support label (RIGHT after LEFT, LEFT
\* after RIGHT), and keeps its value when the current footstep is labelled
\* BOTH; it is never BOTH.
C15_NextSupportOppositeOfCurrent ==
    [][(GoalReturned' /\ calls' # calls) =>
         /\ foot_steps'[1].support_foot = LEFT_FOOT => next_support' = RIGHT_FOOT
         /\ foot_steps'[1].support_foot = RIGHT_FOOT => next_support' = LEFT_FOOT
         /\ foot_steps'[1].support_foot = BOTH_FEET => next_support' = next_support
         /\ next_support' # BOTH_FEET]_vars

\* a set_goal has returned with a single-support current footstep and an
\* upcoming footstep labelled BOTH: next_support names the swung foot
C15_Witness ==
    /\ GoalReturned
    /\ foot_steps[1].support_foot = RIGHT_FOOT
    /\ foot_steps[2].support_foot = BOTH_FEET
    /\ next_support = LEFT_FOOT

\* the upcoming footstep's pose, shifted laterally by shift unless the
\* footstep is labelled BOTH
PoseOf(f1, shift) ==
    [x |-> f1.position.x,
     y |-> IF f1.support_foot = BOTH_FEET THEN f1.position.y ELSE f1.position.y + shift,
     yaw |-> f1.rotation]

\* C16: set_goal recomputes the swing target of exactly the foot opposite to
\* the current footstep's support label: the target becomes the upcoming
\* footstep's pose (raw when that footstep is labelled BOTH, otherwise
\* shifted by +foot_y_offset for the right foot and -foot_y_offset for the
\* left) and the delta (target - offset) / step_frames; the other foot's
\* target and delta, both offsets and both lifts are unchanged, and nothing
\* of these nor next_support changes when the current footstep is BOTH.
C16_OnlySwingFootRetargeted ==
    [][(GoalReturned' /\ calls' # calls) =>
         LET f0 == foot_steps'[1]
             f1 == foot_steps'[2]
             right == PoseOf(f1, foot_y_offset * Scale)
             left == PoseOf(f1, 0 - foot_y_offset * Scale)
         IN  /\ UNCHANGED <<left_offset, right_offset, left_up, right_up>>
             /\ f0.support_foot = LEFT_FOOT =>
                   /\ right_foot_target' = right
                   /\ right_offset_delta' = VDiv(VSub(right, right_offset), step_frames)
                   /\ UNCHANGED <<left_foot_target, left_offset_delta>>
             /\ f0.support_foot = RIGHT_FOOT =>
                   /\ left_foot_target' = left
                   /\ left_offset_delta' = VDiv(VSub(left, left_offset), step_frames)
                   /\ UNCHANGED <<right_foot_target, right_offset_delta>>
             /\ f0.support_foot = BOTH_FEET =>
                   UNCHANGED <<left_foot_target, left_offset_delta, right_foot_target,
                               right_offset_delta, next_support>>]_vars

\* a set_goal made in the middle of a walk (the left foot has swung away
\* from its initial offset) has retargeted the right foot to a shifted pose
C16_Witness ==
    /\ GoalReturned /\ Len(foot_steps) > 2
    /\ foot_steps[1].support_foot = LEFT_FOOT
    /\ foot_steps[2].support_foot = RIGHT_FOOT
    /\ right_foot_target = PoseOf(foot_steps[2], foot_y_offset * Scale)
    /\ right_foot_target # Zero3
    /\ left_offset # Zero3
    /\ foot_y_offset > 0

\* the call that led to this state was a set_goal that asked for a plan
Planned == last.op = "set_goal" /\ ~last.stop

\* C17: a set_goal that is not a stop request leaves status WALKING and
\* leaves in the queue one plan made with the status and next_support held
\* before the call, from the current pose: the second queued footstep's
\* position and rotation, corrected laterally by -foot_y_offset when
\* next_support is LEFT and +foot_y_offset otherwise if status was not START,
\* and the origin with zero orientation when fewer than three footsteps
\* were queued.
C17_PlansFromCurrentPose ==
    [][(Planned' /\ calls' # calls) =>
         LET y_offset == IF status = START THEN 0
                         ELSE IF next_support = LEFT_FOOT THEN 0 - foot_y_offset * Scale
                         ELSE foot_y_offset * Scale
             position == IF Len(foot_steps) < 3 THEN [x |-> 0, y |-> 0]
                         ELSE [x |-> foot_steps[2].position.x,
                               y |-> foot_steps[2].position.y + y_offset]
             rotation == IF Len(foot_steps) < 3 THEN 0 ELSE foot_steps[2].rotation
         IN  /\ status' = WALKING
             /\ \E p \in GoalPositions, a \in GoalOrientations :
                    foot_steps' \in Plans(p, a, position, rotation, next_support, status)]_vars

\* a plan has been made during a walk: from the second footstep of a queue
\* of more than two, with the lateral correction
C17_Witness ==
    /\ Planned /\ last.queued > 2
    /\ status = WALKING
    /\ foot_steps[1].position.x = Scale
    /\ foot_steps[1].position.y # 0

\* the call that led to this state was a tick that ran the walking step
\* (lines 241-322) on footsteps the queue holds
Walked == /\ last.op = "update_joints" /\ last.result = "ok" /\ ~last.past_end
          /\ initialized

\* C18: every set_goal call sets the accumulated orientation to the first
\* queued footstep's rotation, and every tick adds (rotation of the second
\* footstep - rotation of the first) / step_period to it; so the tick that
\* consumes the step's last CoM sample (step_period ticks after the
\* set_goal) leaves it equal to the second footstep's rotation, and within
\* the step it stays between the two rotations.
C18_RotationReachesUpcoming ==
    [][/\ (GoalReturned' /\ calls' # calls) => walk_rotation' = foot_steps'[1].rotation
       /\ (initialized /\ Walked') =>
            LET first == foot_steps'[1].rotation
                second == foot_steps'[2].rotation
                step_period == foot_steps'[2].time - foot_steps'[1].time
                before == IF last'.stop_first THEN first ELSE walk_rotation
            IN  /\ walk_rotation' * step_period
                      = before * step_period + (second - first)
                /\ com_trajectory' = <<>> => walk_rotation' = second
                /\ \/ first <= walk_rotation' /\ walk_rotation' <= second
                   \/ second <= walk_rotation' /\ walk_rotation' <= first]_vars

\* the last tick of a turning step has run: the accumulated orientation has
\* arrived at the second footstep's rotation, which is not the first's
C18_Witness ==
    /\ Walked /\ Len(foot_steps) >= 2
    /\ com_trajectory = <<>>
    /\ foot_steps[2].rotation # foot_steps[1].rotation
    /\ walk_rotation = foot_steps[2].rotation

\* C19: whenever set_goal or update_joints reads the first or second queued
\* footstep (foot_steps[0], foot_steps[1]) the queue holds at least two
\* entries, for every call order, a stop request as the very first call and
\* a tick right after it included: no call reads a footstep past the end of
\* the queue.
C19_QueueHoldsWhatIsRead ==
    last.op \in {"set_goal", "stop", "update_joints"} => ~last.past_end

\* C20: in every reachable state each foot's lift height is at most the
\* configured foot_height, for every interleaving of set_goal and
\* update_joints, a set_goal that refills the CoM sequence in the middle of
\* a swing included.
C20_LiftAtMostFootHeight ==
    (Alive /\ initialized) =>
        /\ left_up <= foot_height * Scale
        /\ right_up <= foot_height * Scale

\* C21: the two feet are never lifted at the same time, and the foot the
\* current footstep names as support has lift height 0, for every sequence
\* of set_goal, stop and update_joints (a support change made by a replan or
\* by a stop request's pop while the swing foot is raised included).
C21_OneFootLiftedAtMost ==
    InStep =>
        /\ ~(left_up > 0 /\ right_up > 0)
        /\ foot_steps[1].support_foot = LEFT_FOOT => left_up = 0
        /\ foot_steps[1].support_foot = RIGHT_FOOT => right_up = 0

\* C22: a tick on an initialized controller whose CoM sequence is not empty
\* at entry removes exactly the front CoM sample and changes neither the
\* footstep queue, status, next_support nor any foot target or delta; it
\* changes the offset and the lift height of the non-support foot at most,
\* and of neither foot when the current footstep is labelled BOTH.
C22_TickTouchesSwingFootOnly ==
    [][(initialized /\ com_trajectory # <<>> /\ last'.op = "update_joints") =>
         /\ last'.result = "ok" /\ ~last'.stop_first
         /\ com_trajectory' = Tail(com_trajectory)
         /\ UNCHANGED <<foot_steps, status, next_support>>
         /\ UNCHANGED <<left_foot_target, left_offset_delta,
                        right_foot_target, right_offset_delta>>
         /\ foot_steps[1].support_foot # RIGHT_FOOT => UNCHANGED <<left_offset, left_up>>
         /\ foot_steps[1].support_foot # LEFT_FOOT => UNCHANGED <<right_offset, right_up>>]_vars

\* a tick has consumed one sample of a left swing and left samples behind:
\* the left foot is raised and displaced, the right foot is where it was
C22_Witness ==
    /\ Walked /\ ~last.stop_first /\ Len(foot_steps) >= 2
    /\ com_trajectory # <<>>
    /\ foot_steps[1].support_foot = RIGHT_FOOT
    /\ left_up > 0 /\ left_offset # Zero3
    /\ right_up = 0 /\ right_offset = Zero3

=========================================================================
